---- MODULE Spec2Model ----
(***************************************************************************)
(* Session lifecycle of the library backend: SessionService                *)
(* (app/services/session_service.py), the require_session guard            *)
(* (app/security/session.py) and the sessions table as the migrations      *)
(* define it (alembic/versions/56a88873c092, d8a5338b78cc).                *)
(*                                                                         *)
(* The sessions table is the only shared state.  Every request worker has  *)
(* its own SQLAlchemy session: what it fetched with db.get is an in-memory *)
(* copy (obj), and a commit writes only the attributes the worker changed. *)
(* Time is counted in abstract ticks; a timestamp column that may be NULL  *)
(* is a set with at most one element.  revoked_at is the column migration  *)
(* d8a5338b78cc adds; SessionService reads and writes it as a row          *)
(* attribute.                                                              *)
(*                                                                         *)
(* The store gives each transaction the committed rows and row locks: the  *)
(* rows create_session's UPDATE changed stay locked until that transaction *)
(* commits or rolls back, and another writer of those rows waits.  The     *)
(* INSERT and the commit that follows it are one step.  The partial unique *)
(* index exists only where the migration created it (sqlite, postgresql);  *)
(* Base.metadata.create_all and the other dialects leave the table without *)
(* it, so a deployment is either.                                          *)
(***************************************************************************)
EXTENDS Integers, Sequences, FiniteSets, TLC

NumProcs == 2
NumMembers == 1
NumMembersSeq == 2
MaxSessions == 2
MaxSessionsSeq == 3
MaxTime == 3
IdleTimeoutTicks == 1
AbsoluteTimeoutTicks == 2
MillisPerTick == 1500
MaxLegacyRows == 3
MaxLegacyTime == 1
NumBooks == 1
MaxCopies == 1
MaxCheckouts == 2

Procs == 1..NumProcs
Times == 0..MaxTime

VARIABLES
    deploy,            \* the deployment: whether the store carries uq_sessions_member_active,
                       \* the request workers that run, the rows the table holds at most,
                       \* the ids of the members table, send_idle_remaining_header
                       \* (and, where a specification needs them, the store's dialect,
                       \* the administrators and the copies each book started with)
    clock,             \* datetime.now(timezone.utc)
    sessions,          \* committed rows of the sessions table, by id
    pc,                \* where each request worker stands
    local,             \* each worker's local variables
    last,              \* response of the call the latest step completed, if it completed one
    books,             \* committed available_copies of the books table, by id
    checkouts          \* committed rows of the checkouts table, by id

vars == <<deploy, clock, sessions, pc, local, last, books, checkouts>>

NULL == {}

NoRow ==
    [member_id |-> 0, created_at |-> 0, last_active_at |-> 0,
     revoked |-> FALSE, revoked_at |-> NULL]

NoLocal == [member |-> 0, sid |-> 0, now |-> 0, attempts |-> 0, upd |-> {}, obj |-> NoRow]

NoResult ==
    [op |-> "none", code |-> "none", sid |-> 0, member |-> 0, revoked |-> FALSE, count |-> 0,
     header |-> NULL]

Outcome(op, code, sid, member) ==
    [op |-> op, code |-> code, sid |-> sid, member |-> member, revoked |-> FALSE, count |-> 0,
     header |-> NULL]

\* mutant: last_active_at is not passed and stays at the epoch
NewSessionEpochActivity(member, now) ==
    [member_id |-> member, created_at |-> now, last_active_at |-> 0,
     revoked |-> FALSE, revoked_at |-> NULL]

\* Session(member_id=..., created_at=now, last_active_at=now), revoked defaulting to false
NewSession(member, now) ==
    [member_id |-> member, created_at |-> now, last_active_at |-> now,
     revoked |-> FALSE, revoked_at |-> NULL]

\* mutant: the filter selects the rows already revoked
ActiveIdsRevokedOnly(rows, member) ==
    {i \in DOMAIN rows : rows[i].member_id = member /\ rows[i].revoked}

\* .filter(member_id == member, revoked.is_(False)) over the committed rows
ActiveIds(rows, member) ==
    {i \in DOMAIN rows : rows[i].member_id = member /\ ~rows[i].revoked}

\* mutant: the bulk UPDATE sets revoked only
RevokeRowsFlagOnly(rows, ids, now) ==
    [i \in DOMAIN rows |->
        IF i \in ids THEN [rows[i] EXCEPT !.revoked = TRUE] ELSE rows[i]]

\* .update({"revoked": True, "revoked_at": now}) applied to the rows of ids
RevokeRows(rows, ids, now) ==
    [i \in DOMAIN rows |->
        IF i \in ids THEN [rows[i] EXCEPT !.revoked = TRUE, !.revoked_at = {now}]
        ELSE rows[i]]

\* rows another worker's open create_session transaction has updated and not yet committed
LockedByOther(p, ids) ==
    \E q \in Procs \ {p} : pc[q] = "cs_flush" /\ local[q].upd \cap ids # {}

\* the partial unique index (member_id) WHERE revoked = false rejects the INSERT
InsertViolates(rows, member, upd) ==
    deploy.uniqueIndex /\ \E i \in DOMAIN rows :
        rows[i].member_id = member /\ ~rows[i].revoked /\ i \notin upd

\* db.get(SessionModel, session_id): the row or None
DbGet(sid) == IF sid \in DOMAIN sessions THEN {sessions[sid]} ELSE {}

\* mutant: the revoked flag is not looked at
GetActiveSessionAnyRow(sid) == DbGet(sid)

GetActiveSession(sid) == {s \in DbGet(sid) : ~s.revoked}

\* SessionService.idle_timeout and absolute_timeout, in ticks
idle_timeout == IdleTimeoutTicks

absolute_timeout == AbsoluteTimeoutTicks

IsAbsoluteExpired(now, created_at) == now - created_at > absolute_timeout

\* mutant: the idle comparison is not strict
IsIdleExpiredInclusive(now, last_active_at) == now - last_active_at >= idle_timeout

IsIdleExpired(now, last_active_at) == now - last_active_at > idle_timeout

\* mutant: the seconds are rounded up
IdleRemainingRoundedUp(now, last_active_at) ==
    LET millis == (idle_timeout - (now - last_active_at)) * MillisPerTick
        seconds == IF millis >= 0 THEN (millis + 999) \div 1000 ELSE -((-millis) \div 1000)
    IN  IF seconds > 0 THEN seconds ELSE 0

\* max(0, int((idle_timeout - idle_elapsed).total_seconds())): int() drops the fraction
IdleRemaining(now, last_active_at) ==
    LET millis == (idle_timeout - (now - last_active_at)) * MillisPerTick
        seconds == IF millis >= 0 THEN millis \div 1000 ELSE -((-millis) \div 1000)
    IN  IF seconds > 0 THEN seconds ELSE 0

\* response.headers after lines 60-62
IdleRemainingHeader(now, last_active_at) ==
    IF deploy.sendHeader THEN {IdleRemaining(now, last_active_at)} ELSE NULL

\* mutant: revoked is set and revoked_at is left alone
MarkRevokedRowNoTimestamp(row, obj, now) ==
    IF obj.revoked THEN row ELSE [row EXCEPT !.revoked = TRUE]

\* mutant: the already-revoked case is not told apart
MarkRevokedRowEveryCall(row, obj, now) ==
    [row EXCEPT !.revoked = TRUE, !.revoked_at = {now}]

\* what mark_revoked(obj) leaves in the stored row: only changed attributes are written
MarkRevokedRow(row, obj, now) ==
    IF obj.revoked
    THEN IF obj.revoked_at = NULL THEN [row EXCEPT !.revoked_at = {now}] ELSE row
    ELSE [row EXCEPT !.revoked = TRUE, !.revoked_at = {now}]

\* mutant: sliding renews the session, created_at moves with last_active_at
SlideRowRenews(row, timestamp) ==
    [row EXCEPT !.last_active_at = timestamp, !.created_at = timestamp]

\* mutant: the new last_active_at is never committed
SlideRowNotCommitted(row, timestamp) == row

\* what slide_session(obj, timestamp) leaves in the stored row
SlideRow(row, timestamp) == [row EXCEPT !.last_active_at = timestamp]

InCreate(q) == pc[q] \in {"cs_update", "cs_flush", "cs_refresh"}

Init ==
    /\ deploy \in [uniqueIndex : BOOLEAN, workers : {Procs}, capacity : {MaxSessions},
                  members : {1..NumMembers}, sendHeader : {TRUE}]
    /\ clock = 0
    /\ sessions = <<>>
    /\ pc = [p \in Procs |-> "idle"]
    /\ local = [p \in Procs |-> NoLocal]
    /\ last = NoResult
    /\ books = <<>>
    /\ checkouts = <<>>

Tick ==
    /\ clock < MaxTime
    /\ clock' = clock + 1
    /\ last' = NoResult
    /\ UNCHANGED <<books, checkouts, deploy, sessions, pc, local>>

\* create_session entry: now = datetime.now(), attempts = 0
CreateSessionCall(p, m) ==
    /\ pc[p] = "idle"
    /\ Len(sessions) + Cardinality({q \in Procs : InCreate(q)}) < deploy.capacity
    /\ pc' = [pc EXCEPT ![p] = "cs_update"]
    /\ local' = [local EXCEPT ![p] = [NoLocal EXCEPT !.member = m, !.now = clock]]
    /\ last' = NoResult
    /\ UNCHANGED <<books, checkouts, deploy, clock, sessions>>

\* mutant: the UPDATE runs outside the transaction and is committed at once
CreateSessionUpdateAutocommit(p) ==
    /\ pc[p] = "cs_update"
    /\ LET ids == ActiveIds(sessions, local[p].member) IN
        /\ ~LockedByOther(p, ids)
        /\ local' = [local EXCEPT ![p].attempts = @ + 1, ![p].upd = ids]
        /\ sessions' = RevokeRows(sessions, ids, local[p].now)
    /\ pc' = [pc EXCEPT ![p] = "cs_flush"]
    /\ last' = NoResult
    /\ UNCHANGED <<books, checkouts, deploy, clock>>

\* loop head and the UPDATE inside the transaction
CreateSessionUpdate(p) ==
    /\ pc[p] = "cs_update"
    /\ LET ids == ActiveIds(sessions, local[p].member) IN
        /\ ~LockedByOther(p, ids)
        /\ local' = [local EXCEPT ![p].attempts = @ + 1, ![p].upd = ids]
    /\ pc' = [pc EXCEPT ![p] = "cs_flush"]
    /\ last' = NoResult
    /\ UNCHANGED <<books, checkouts, deploy, clock, sessions>>

\* mutant: the loop gives up after the third attempt
CreateSessionFlushThreeAttempts(p) ==
    /\ pc[p] = "cs_flush"
    /\ LET l == local[p] IN
        IF InsertViolates(sessions, l.member, l.upd)
        THEN /\ sessions' = sessions
             /\ IF l.attempts >= 3
                THEN /\ pc' = [pc EXCEPT ![p] = "idle"]
                     /\ local' = [local EXCEPT ![p] = NoLocal]
                     /\ last' = Outcome("create_session", "integrity_error", 0, l.member)
                ELSE /\ pc' = [pc EXCEPT ![p] = "cs_update"]
                     /\ local' = [local EXCEPT ![p].upd = {}]
                     /\ last' = NoResult
        ELSE /\ sessions' = Append(RevokeRows(sessions, l.upd, l.now), NewSession(l.member, l.now))
             /\ pc' = [pc EXCEPT ![p] = "cs_refresh"]
             /\ local' = [local EXCEPT ![p].upd = {}, ![p].sid = Len(sessions) + 1]
             /\ last' = NoResult
    /\ UNCHANGED <<books, checkouts, deploy, clock>>

\* db.add, db.flush and the commit on leaving the block, or IntegrityError and rollback
CreateSessionFlush(p) ==
    /\ pc[p] = "cs_flush"
    /\ LET l == local[p] IN
        IF InsertViolates(sessions, l.member, l.upd)
        THEN /\ sessions' = sessions
             /\ IF l.attempts >= 2
                THEN /\ pc' = [pc EXCEPT ![p] = "idle"]
                     /\ local' = [local EXCEPT ![p] = NoLocal]
                     /\ last' = Outcome("create_session", "integrity_error", 0, l.member)
                ELSE /\ pc' = [pc EXCEPT ![p] = "cs_update"]
                     /\ local' = [local EXCEPT ![p].upd = {}]
                     /\ last' = NoResult
        ELSE /\ sessions' = Append(RevokeRows(sessions, l.upd, l.now), NewSession(l.member, l.now))
             /\ pc' = [pc EXCEPT ![p] = "cs_refresh"]
             /\ local' = [local EXCEPT ![p].upd = {}, ![p].sid = Len(sessions) + 1]
             /\ last' = NoResult
    /\ UNCHANGED <<books, checkouts, deploy, clock>>

\* db.refresh(session); return session
CreateSessionRefresh(p) ==
    /\ pc[p] = "cs_refresh"
    /\ pc' = [pc EXCEPT ![p] = "idle"]
    /\ last' = [Outcome("create_session", "ok", local[p].sid, local[p].member)
                    EXCEPT !.revoked = sessions[local[p].sid].revoked]
    /\ local' = [local EXCEPT ![p] = NoLocal]
    /\ UNCHANGED <<books, checkouts, deploy, clock, sessions>>

\* mutant: a missing cookie is looked up like any other id
RequireSessionNoCookieLookup(p) ==
    /\ pc[p] = "idle"
    /\ last' = Outcome("require_session", "invalid_session", 0, 0)
    /\ UNCHANGED <<books, checkouts, deploy, clock, sessions, pc, local>>

\* require_session without the cookie
RequireSessionNoCookie(p) ==
    /\ pc[p] = "idle"
    /\ last' = Outcome("require_session", "not_authenticated", 0, 0)
    /\ UNCHANGED <<books, checkouts, deploy, clock, sessions, pc, local>>

\* require_session with a cookie: get_active_session(sid)
RequireSessionGet(p, sid) ==
    /\ pc[p] = "idle"
    /\ IF GetActiveSession(sid) = {}
       THEN /\ last' = Outcome("require_session", "invalid_session", sid, 0)
            /\ UNCHANGED <<pc, local>>
       ELSE /\ pc' = [pc EXCEPT ![p] = "rs_check"]
            /\ local' = [local EXCEPT ![p] =
                    [NoLocal EXCEPT !.sid = sid,
                                    !.obj = CHOOSE s \in GetActiveSession(sid) : TRUE]]
            /\ last' = NoResult
    /\ UNCHANGED <<books, checkouts, deploy, clock, sessions>>

\* mutant: the idle comparison comes first
RequireSessionCheckIdleFirst(p) ==
    /\ pc[p] = "rs_check"
    /\ pc' = [pc EXCEPT ![p] =
            IF IsIdleExpired(clock, local[p].obj.last_active_at) THEN "rs_idle"
            ELSE IF IsAbsoluteExpired(clock, local[p].obj.created_at) THEN "rs_absolute"
            ELSE "rs_slide"]
    /\ local' = [local EXCEPT ![p].now = clock]
    /\ last' = NoResult
    /\ UNCHANGED <<books, checkouts, deploy, clock, sessions>>

\* mutant: the absolute lifetime is counted from last_active_at
RequireSessionCheckAbsoluteSlides(p) ==
    /\ pc[p] = "rs_check"
    /\ pc' = [pc EXCEPT ![p] =
            IF IsAbsoluteExpired(clock, local[p].obj.last_active_at) THEN "rs_absolute"
            ELSE IF IsIdleExpired(clock, local[p].obj.last_active_at) THEN "rs_idle"
            ELSE "rs_slide"]
    /\ local' = [local EXCEPT ![p].now = clock]
    /\ last' = NoResult
    /\ UNCHANGED <<books, checkouts, deploy, clock, sessions>>

\* now = datetime.now(); the two timeout comparisons
RequireSessionCheck(p) ==
    /\ pc[p] = "rs_check"
    /\ pc' = [pc EXCEPT ![p] =
            IF IsAbsoluteExpired(clock, local[p].obj.created_at) THEN "rs_absolute"
            ELSE IF IsIdleExpired(clock, local[p].obj.last_active_at) THEN "rs_idle"
            ELSE "rs_slide"]
    /\ local' = [local EXCEPT ![p].now = clock]
    /\ last' = NoResult
    /\ UNCHANGED <<books, checkouts, deploy, clock, sessions>>

\* mutant: the expired session is slid before it is revoked
RequireSessionExpireSliding(p) ==
    /\ pc[p] \in {"rs_absolute", "rs_idle"}
    /\ ~LockedByOther(p, {local[p].sid})
    /\ sessions' = [sessions EXCEPT ![local[p].sid] =
            SlideRow(MarkRevokedRow(@, local[p].obj, clock), local[p].now)]
    /\ last' = Outcome("require_session",
                       IF pc[p] = "rs_absolute" THEN "absolute_expired" ELSE "idle_expired",
                       local[p].sid, 0)
    /\ pc' = [pc EXCEPT ![p] = "idle"]
    /\ local' = [local EXCEPT ![p] = NoLocal]
    /\ UNCHANGED <<books, checkouts, deploy, clock>>

\* mark_revoked(session) and the HTTPException of the branch that called it
RequireSessionExpire(p) ==
    /\ pc[p] \in {"rs_absolute", "rs_idle"}
    /\ ~LockedByOther(p, {local[p].sid})
    /\ sessions' = [sessions EXCEPT ![local[p].sid] = MarkRevokedRow(@, local[p].obj, clock)]
    /\ last' = Outcome("require_session",
                       IF pc[p] = "rs_absolute" THEN "absolute_expired" ELSE "idle_expired",
                       local[p].sid, 0)
    /\ pc' = [pc EXCEPT ![p] = "idle"]
    /\ local' = [local EXCEPT ![p] = NoLocal]
    /\ UNCHANGED <<books, checkouts, deploy, clock>>

\* mutant: the commit writes every attribute of the in-memory copy
RequireSessionSlideWholeRow(p) ==
    /\ pc[p] = "rs_slide"
    /\ ~LockedByOther(p, {local[p].sid})
    /\ sessions' = [sessions EXCEPT ![local[p].sid] = SlideRow(local[p].obj, local[p].now)]
    /\ last' = [Outcome("require_session", "ok", local[p].sid, local[p].obj.member_id)
                    EXCEPT !.header = IdleRemainingHeader(local[p].now,
                                                          local[p].obj.last_active_at)]
    /\ pc' = [pc EXCEPT ![p] = "idle"]
    /\ local' = [local EXCEPT ![p] = NoLocal]
    /\ UNCHANGED <<books, checkouts, deploy, clock>>

\* mutant: the failure of the revoke is swallowed and the request goes on
RequireSessionExpireFailsOpen(p) ==
    /\ pc[p] \in {"rs_absolute", "rs_idle"}
    /\ pc' = [pc EXCEPT ![p] = "rs_slide"]
    /\ last' = NoResult
    /\ UNCHANGED <<books, checkouts, deploy, clock, sessions, local>>

\* mark_revoked(session) whose commit raises: the exception leaves require_session
RequireSessionExpireFails(p) ==
    /\ pc[p] \in {"rs_absolute", "rs_idle"}
    /\ last' = Outcome("require_session", "server_error", local[p].sid, 0)
    /\ pc' = [pc EXCEPT ![p] = "idle"]
    /\ local' = [local EXCEPT ![p] = NoLocal]
    /\ UNCHANGED <<books, checkouts, deploy, clock, sessions>>

\* slide_session(session, timestamp=now); return session.member
RequireSessionSlide(p) ==
    /\ pc[p] = "rs_slide"
    /\ ~LockedByOther(p, {local[p].sid})
    /\ sessions' = [sessions EXCEPT ![local[p].sid] = SlideRow(@, local[p].now)]
    /\ last' = [Outcome("require_session", "ok", local[p].sid, local[p].obj.member_id)
                    EXCEPT !.header = IdleRemainingHeader(local[p].now,
                                                          local[p].obj.last_active_at)]
    /\ pc' = [pc EXCEPT ![p] = "idle"]
    /\ local' = [local EXCEPT ![p] = NoLocal]
    /\ UNCHANGED <<books, checkouts, deploy, clock>>

\* revoke_session: db.get(SessionModel, session_id)
RevokeSessionGet(p, sid) ==
    /\ pc[p] = "idle"
    /\ IF DbGet(sid) = {}
       THEN /\ last' = Outcome("revoke_session", "false", sid, 0)
            /\ UNCHANGED <<pc, local>>
       ELSE /\ pc' = [pc EXCEPT ![p] = "rv_mark"]
            /\ local' = [local EXCEPT ![p] =
                    [NoLocal EXCEPT !.sid = sid, !.obj = CHOOSE s \in DbGet(sid) : TRUE]]
            /\ last' = NoResult
    /\ UNCHANGED <<books, checkouts, deploy, clock, sessions>>

\* revoke_session: self.mark_revoked(session); return True
RevokeSessionMark(p) ==
    /\ pc[p] = "rv_mark"
    /\ ~LockedByOther(p, {local[p].sid})
    /\ sessions' = [sessions EXCEPT ![local[p].sid] = MarkRevokedRow(@, local[p].obj, clock)]
    /\ last' = Outcome("revoke_session", "true", local[p].sid, 0)
    /\ pc' = [pc EXCEPT ![p] = "idle"]
    /\ local' = [local EXCEPT ![p] = NoLocal]
    /\ UNCHANGED <<books, checkouts, deploy, clock>>

\* mutant: the UPDATE has no member_id filter
RevokeAllForMemberEveryMember(p, m) ==
    /\ pc[p] = "idle"
    /\ LET ids == {i \in DOMAIN sessions : ~sessions[i].revoked} IN
        /\ ~LockedByOther(p, ids)
        /\ sessions' = RevokeRows(sessions, ids, clock)
        /\ last' = [Outcome("revoke_all_for_member", "ok", 0, m) EXCEPT !.count = Cardinality(ids)]
    /\ UNCHANGED <<books, checkouts, deploy, clock, pc, local>>

\* revoke_all_for_member: one UPDATE, committed when it changed rows
RevokeAllForMember(p, m) ==
    /\ pc[p] = "idle"
    /\ LET ids == ActiveIds(sessions, m) IN
        /\ ~LockedByOther(p, ids)
        /\ sessions' = RevokeRows(sessions, ids, clock)
        /\ last' = [Outcome("revoke_all_for_member", "ok", 0, m) EXCEPT !.count = Cardinality(ids)]
    /\ UNCHANGED <<books, checkouts, deploy, clock, pc, local>>

\* the email addresses a sign-in may carry: -1 is not an address, 0 is the
\* address of no member, m > 0 is the address of member m
Emails == -1..NumMembers

\* get_member_by_email: the member or None
GetMemberByEmail(email) == {m \in deploy.members : m = email}

\* mutant: only the lookup decides, the password is not verified
SigninNoPasswordCheck(p, email, passwordMatches) ==
    /\ pc[p] = "idle"
    /\ IF email = -1
       THEN /\ last' = Outcome("signin", "invalid_email", 0, 0)
            /\ UNCHANGED <<books, checkouts, deploy, clock, sessions, pc, local>>
       ELSE IF GetMemberByEmail(email) = {}
       THEN /\ last' = Outcome("signin", "invalid_credentials", 0, 0)
            /\ UNCHANGED <<books, checkouts, deploy, clock, sessions, pc, local>>
       ELSE CreateSessionCall(p, email)

\* POST /auth/signin: authenticate(email, password), then create_session
Signin(p, email, passwordMatches) ==
    /\ pc[p] = "idle"
    /\ IF email = -1
       THEN /\ last' = Outcome("signin", "invalid_email", 0, 0)
            /\ UNCHANGED <<books, checkouts, deploy, clock, sessions, pc, local>>
       ELSE IF GetMemberByEmail(email) = {} \/ ~passwordMatches
       THEN /\ last' = Outcome("signin", "invalid_credentials", 0, 0)
            /\ UNCHANGED <<books, checkouts, deploy, clock, sessions, pc, local>>
       ELSE CreateSessionCall(p, email)

\* POST /auth/signout without the cookie: require_session raises
SignoutNoCookie(p) ==
    /\ pc[p] = "idle"
    /\ last' = Outcome("signout", "not_authenticated", 0, 0)
    /\ UNCHANGED <<books, checkouts, deploy, clock, sessions, pc, local>>

\* signout's dependency require_session: get_active_session(sid)
SignoutGet(p, sid) ==
    /\ pc[p] = "idle"
    /\ IF GetActiveSession(sid) = {}
       THEN /\ last' = Outcome("signout", "invalid_session", sid, 0)
            /\ UNCHANGED <<pc, local>>
       ELSE /\ pc' = [pc EXCEPT ![p] = "so_check"]
            /\ local' = [local EXCEPT ![p] =
                    [NoLocal EXCEPT !.sid = sid,
                                    !.obj = CHOOSE s \in GetActiveSession(sid) : TRUE]]
            /\ last' = NoResult
    /\ UNCHANGED <<books, checkouts, deploy, clock, sessions>>

\* signout's dependency require_session: now and the two timeout comparisons
SignoutCheck(p) ==
    /\ pc[p] = "so_check"
    /\ pc' = [pc EXCEPT ![p] =
            IF IsAbsoluteExpired(clock, local[p].obj.created_at) THEN "so_absolute"
            ELSE IF IsIdleExpired(clock, local[p].obj.last_active_at) THEN "so_idle"
            ELSE "so_slide"]
    /\ local' = [local EXCEPT ![p].now = clock]
    /\ last' = NoResult
    /\ UNCHANGED <<books, checkouts, deploy, clock, sessions>>

\* signout's dependency require_session: mark_revoked and the 401
SignoutExpire(p) ==
    /\ pc[p] \in {"so_absolute", "so_idle"}
    /\ ~LockedByOther(p, {local[p].sid})
    /\ sessions' = [sessions EXCEPT ![local[p].sid] = MarkRevokedRow(@, local[p].obj, clock)]
    /\ last' = Outcome("signout",
                       IF pc[p] = "so_absolute" THEN "absolute_expired" ELSE "idle_expired",
                       local[p].sid, 0)
    /\ pc' = [pc EXCEPT ![p] = "idle"]
    /\ local' = [local EXCEPT ![p] = NoLocal]
    /\ UNCHANGED <<books, checkouts, deploy, clock>>

\* signout's dependency require_session: slide_session; the handler body follows
SignoutSlide(p) ==
    /\ pc[p] = "so_slide"
    /\ ~LockedByOther(p, {local[p].sid})
    /\ sessions' = [sessions EXCEPT ![local[p].sid] = SlideRow(@, local[p].now)]
    /\ local' = [local EXCEPT ![p].obj = SlideRow(@, local[p].now)]
    /\ pc' = [pc EXCEPT ![p] = "so_revoke"]
    /\ last' = NoResult
    /\ UNCHANGED <<books, checkouts, deploy, clock>>

\* mutant: the handler clears the cookie and leaves the row alone
SignoutRevokeCookieOnly(p) ==
    /\ pc[p] = "so_revoke"
    /\ last' = Outcome("signout", "ok", local[p].sid, local[p].obj.member_id)
    /\ pc' = [pc EXCEPT ![p] = "idle"]
    /\ local' = [local EXCEPT ![p] = NoLocal]
    /\ UNCHANGED <<books, checkouts, deploy, clock, sessions>>

\* signout body: revoke_session(session_id) on the request's own db session, whose
\* db.get returns the object the guard loaded; delete_cookie; 204
SignoutRevoke(p) ==
    /\ pc[p] = "so_revoke"
    /\ ~LockedByOther(p, {local[p].sid})
    /\ sessions' = [sessions EXCEPT ![local[p].sid] = MarkRevokedRow(@, local[p].obj, clock)]
    /\ last' = Outcome("signout", "ok", local[p].sid, local[p].obj.member_id)
    /\ pc' = [pc EXCEPT ![p] = "idle"]
    /\ local' = [local EXCEPT ![p] = NoLocal]
    /\ UNCHANGED <<books, checkouts, deploy, clock>>

Next ==
    \/ Tick
    \/ \E p \in deploy.workers, m \in deploy.members : CreateSessionCall(p, m)
    \/ \E p \in deploy.workers : CreateSessionUpdate(p)
    \/ \E p \in deploy.workers : CreateSessionFlush(p)
    \/ \E p \in deploy.workers : CreateSessionRefresh(p)
    \/ \E p \in deploy.workers : RequireSessionNoCookie(p)
    \/ \E p \in deploy.workers, sid \in 1..deploy.capacity : RequireSessionGet(p, sid)
    \/ \E p \in deploy.workers : RequireSessionCheck(p)
    \/ \E p \in deploy.workers : RequireSessionExpire(p)
    \/ \E p \in deploy.workers : RequireSessionSlide(p)
    \/ \E p \in deploy.workers, sid \in 1..deploy.capacity : RevokeSessionGet(p, sid)
    \/ \E p \in deploy.workers : RevokeSessionMark(p)
    \/ \E p \in deploy.workers, m \in deploy.members : RevokeAllForMember(p, m)

Spec == Init /\ [][Next]_vars

\* one request at a time: a single worker serves every call
InitSeq ==
    /\ deploy \in [uniqueIndex : BOOLEAN, workers : {{1}}, capacity : {MaxSessionsSeq},
                  members : {1..NumMembersSeq}, sendHeader : {TRUE}]
    /\ clock = 0
    /\ sessions = <<>>
    /\ pc = [p \in Procs |-> "idle"]
    /\ local = [p \in Procs |-> NoLocal]
    /\ last = NoResult
    /\ books = <<>>
    /\ checkouts = <<>>

SpecSeq == InitSeq /\ [][Next]_vars

\* only create_session calls run, concurrently
NextCreate ==
    \/ Tick
    \/ \E p \in deploy.workers, m \in deploy.members : CreateSessionCall(p, m)
    \/ \E p \in deploy.workers : CreateSessionUpdate(p)
    \/ \E p \in deploy.workers : CreateSessionFlush(p)
    \/ \E p \in deploy.workers : CreateSessionRefresh(p)

SpecCreate == Init /\ [][NextCreate]_vars

\* sign-ins racing with sign-outs of the same member
InitRetry ==
    /\ deploy \in [uniqueIndex : BOOLEAN, workers : {Procs}, capacity : {MaxSessionsSeq},
                  members : {1..NumMembers}, sendHeader : {TRUE}]
    /\ clock = 0
    /\ sessions = <<>>
    /\ pc = [p \in Procs |-> "idle"]
    /\ local = [p \in Procs |-> NoLocal]
    /\ last = NoResult
    /\ books = <<>>
    /\ checkouts = <<>>

NextRetry ==
    \/ Tick
    \/ \E p \in deploy.workers, m \in deploy.members : CreateSessionCall(p, m)
    \/ \E p \in deploy.workers : CreateSessionUpdate(p)
    \/ \E p \in deploy.workers : CreateSessionFlush(p)
    \/ \E p \in deploy.workers : CreateSessionRefresh(p)
    \/ \E p \in deploy.workers, m \in deploy.members : RevokeAllForMember(p, m)

SpecRetry == InitRetry /\ [][NextRetry]_vars

\* sign-ins, validations and sign-outs of two members on the migrated store
InitSignout ==
    /\ deploy \in [uniqueIndex : {TRUE}, workers : {Procs}, capacity : {MaxSessions},
                  members : {1..NumMembersSeq}, sendHeader : {TRUE}]
    /\ clock = 0
    /\ sessions = <<>>
    /\ pc = [p \in Procs |-> "idle"]
    /\ local = [p \in Procs |-> NoLocal]
    /\ last = NoResult
    /\ books = <<>>
    /\ checkouts = <<>>

NextSignout ==
    \/ Tick
    \/ \E p \in deploy.workers, m \in deploy.members : CreateSessionCall(p, m)
    \/ \E p \in deploy.workers : CreateSessionUpdate(p)
    \/ \E p \in deploy.workers : CreateSessionFlush(p)
    \/ \E p \in deploy.workers : CreateSessionRefresh(p)
    \/ \E p \in deploy.workers, sid \in 1..deploy.capacity : RequireSessionGet(p, sid)
    \/ \E p \in deploy.workers : RequireSessionCheck(p)
    \/ \E p \in deploy.workers : RequireSessionExpire(p)
    \/ \E p \in deploy.workers : RequireSessionSlide(p)
    \/ \E p \in deploy.workers : SignoutNoCookie(p)
    \/ \E p \in deploy.workers, sid \in 1..deploy.capacity : SignoutGet(p, sid)
    \/ \E p \in deploy.workers : SignoutCheck(p)
    \/ \E p \in deploy.workers : SignoutExpire(p)
    \/ \E p \in deploy.workers : SignoutSlide(p)
    \/ \E p \in deploy.workers : SignoutRevoke(p)

SpecSignout == InitSignout /\ [][NextSignout]_vars

\* sign-in requests with any credentials
NextSignin ==
    \/ Tick
    \/ \E p \in deploy.workers, email \in Emails, passwordMatches \in BOOLEAN :
            Signin(p, email, passwordMatches)
    \/ \E p \in deploy.workers : CreateSessionUpdate(p)
    \/ \E p \in deploy.workers : CreateSessionFlush(p)
    \/ \E p \in deploy.workers : CreateSessionRefresh(p)

SpecSignin == Init /\ [][NextSignin]_vars

\* validations on a deployment that sends the idle-remaining header or does not
InitHeader ==
    /\ deploy \in [uniqueIndex : {TRUE}, workers : {Procs}, capacity : {MaxSessions},
                  members : {1..NumMembers}, sendHeader : BOOLEAN]
    /\ clock = 0
    /\ sessions = <<>>
    /\ pc = [p \in Procs |-> "idle"]
    /\ local = [p \in Procs |-> NoLocal]
    /\ last = NoResult
    /\ books = <<>>
    /\ checkouts = <<>>

NextHeader ==
    \/ Tick
    \/ \E p \in deploy.workers, m \in deploy.members : CreateSessionCall(p, m)
    \/ \E p \in deploy.workers : CreateSessionUpdate(p)
    \/ \E p \in deploy.workers : CreateSessionFlush(p)
    \/ \E p \in deploy.workers : CreateSessionRefresh(p)
    \/ \E p \in deploy.workers : RequireSessionNoCookie(p)
    \/ \E p \in deploy.workers, sid \in 1..deploy.capacity : RequireSessionGet(p, sid)
    \/ \E p \in deploy.workers : RequireSessionCheck(p)
    \/ \E p \in deploy.workers : RequireSessionExpire(p)
    \/ \E p \in deploy.workers : RequireSessionSlide(p)

SpecHeader == InitHeader /\ [][NextHeader]_vars

\* the dialects op.get_bind() may report
Dialects == {"sqlite", "postgresql", "mysql"}

\* a row of the sessions table as revision 56a88873c092 left it, with the
\* revoked_at column of line 59 still empty
LegacyRows ==
    {r \in [member_id : 1..NumMembersSeq, created_at : 0..MaxLegacyTime,
            last_active_at : 0..MaxLegacyTime, revoked : BOOLEAN, revoked_at : {NULL}] :
        r.last_active_at >= r.created_at}

LegacyTables == UNION {[1..n -> LegacyRows] : n \in 0..MaxLegacyRows}

\* mutant: the oldest row ranks first
RankedBeforeAscending(rows, i, j) ==
    \/ rows[i].last_active_at < rows[j].last_active_at
    \/ /\ rows[i].last_active_at = rows[j].last_active_at
       /\ \/ rows[i].created_at < rows[j].created_at
          \/ rows[i].created_at = rows[j].created_at /\ i < j

\* ORDER BY last_active_at DESC, created_at DESC, id DESC places row i before row j
RankedBefore(rows, i, j) ==
    \/ rows[i].last_active_at > rows[j].last_active_at
    \/ /\ rows[i].last_active_at = rows[j].last_active_at
       /\ \/ rows[i].created_at > rows[j].created_at
          \/ rows[i].created_at = rows[j].created_at /\ i > j

\* ROW_NUMBER() OVER (PARTITION BY member_id ORDER BY ...) among the rows WHERE revoked = 0
RowNumber(rows, i) ==
    1 + Cardinality({j \in DOMAIN rows :
                        /\ ~rows[j].revoked
                        /\ rows[j].member_id = rows[i].member_id
                        /\ RankedBefore(rows, j, i)})

\* UPDATE sessions SET revoked = 1 WHERE id IN (... WHERE rn > 1)
CleanupDuplicateActiveSessions(rows) ==
    [i \in DOMAIN rows |->
        IF ~rows[i].revoked /\ RowNumber(rows, i) > 1
        THEN [rows[i] EXCEPT !.revoked = TRUE]
        ELSE rows[i]]

\* UPDATE sessions SET revoked_at = CURRENT_TIMESTAMP WHERE revoked = 1 AND revoked_at IS NULL
SetRevokedTimestamps(rows, now) ==
    [i \in DOMAIN rows |->
        IF rows[i].revoked /\ rows[i].revoked_at = NULL
        THEN [rows[i] EXCEPT !.revoked_at = {now}]
        ELSE rows[i]]

\* the table before alembic upgrade d8a5338b78cc, on any of the dialects
InitMigrate ==
    /\ deploy \in [uniqueIndex : {FALSE}, workers : {Procs}, capacity : {MaxLegacyRows},
                  members : {1..NumMembersSeq}, sendHeader : {TRUE}, dialect : Dialects]
    /\ clock = MaxTime
    /\ sessions \in LegacyTables
    /\ pc = [p \in Procs |-> "idle"]
    /\ local = [p \in Procs |-> NoLocal]
    /\ last = NoResult
    /\ books = <<>>
    /\ checkouts = <<>>

\* upgrade(): the comparisons revoked = 1 and revoked = 0 of the two UPDATEs are
\* integer comparisons, which postgresql refuses for a boolean column: there the
\* upgrade raises and its transaction leaves the table as it was
Upgrade ==
    /\ last.op = "none"
    /\ IF deploy.dialect = "postgresql"
       THEN /\ last' = Outcome("upgrade", "failed", 0, 0)
            /\ UNCHANGED <<books, checkouts, deploy, sessions>>
       ELSE /\ sessions' = SetRevokedTimestamps(CleanupDuplicateActiveSessions(sessions), clock)
            /\ deploy' = [deploy EXCEPT !.uniqueIndex = (deploy.dialect = "sqlite")]
            /\ last' = Outcome("upgrade", "ok", 0, 0)
    /\ UNCHANGED <<clock, pc, local, books, checkouts>>

NextMigrate == Upgrade

SpecMigrate == InitMigrate /\ [][NextMigrate]_vars

(***************************************************************************)
(* Checkouts: CheckoutService and AdminLoanService.  Due dates come from   *)
(* the requests, so whether one has passed is an input of the call.        *)
(***************************************************************************)

Books == 1..NumBooks

ACTIVE_STATUSES == {"checked_out", "overdue"}

\* CheckoutUpdate.action
UpdateActions == {"return", "extend", "cancel", "mark_lost"}

\* the place of a row that was deleted
NoCheckout == [book_id |-> 0, member_id |-> 0, status |-> "deleted"]

NoLoanLocal ==
    [op |-> "none", member |-> 0, book |-> 0, cid |-> 0, action |-> "none",
     copies |-> 0, row |-> NoCheckout]

\* _get_checkout finds the row
CheckoutExists(cid) == cid \in DOMAIN checkouts /\ checkouts[cid] # NoCheckout

\* the query of create_checkout and create_loan for an active checkout of the member and book
ExistingActive(member, book) ==
    {i \in DOMAIN checkouts :
        /\ checkouts[i].book_id = book
        /\ checkouts[i].member_id = member
        /\ checkouts[i].status \in ACTIVE_STATUSES}

InCreateCheckout(q) == pc[q] \in {"cc_existing", "cc_commit", "cl_existing", "cl_commit"}

\* the call of worker p ends: an HTTPException or the return value
Respond(p, op, code, cid) ==
    /\ pc' = [pc EXCEPT ![p] = "idle"]
    /\ local' = [local EXCEPT ![p] = NoLocal]
    /\ last' = Outcome(op, code, cid, 0)

\* the library opens with every copy on the shelf; member 1 is the administrator
InitLibrary ==
    /\ deploy \in [uniqueIndex : {TRUE}, workers : {Procs}, capacity : {MaxCheckouts},
                  members : {1..NumMembersSeq}, sendHeader : {TRUE}, admins : {{1}},
                  copies : [Books -> 0..MaxCopies]]
    /\ clock = 0
    /\ sessions = <<>>
    /\ pc = [p \in Procs |-> "idle"]
    /\ local = [p \in Procs |-> NoLocal]
    /\ last = NoResult
    /\ books = deploy.copies
    /\ checkouts = <<>>

\* create_checkout, lines 128-138: the target member, then _get_member and _get_book
CreateCheckoutGet(p, actor, target, b) ==
    /\ pc[p] = "idle"
    /\ Len(checkouts) + Cardinality({q \in Procs : InCreateCheckout(q)}) < deploy.capacity
    /\ IF actor \notin deploy.admins /\ target # actor
       THEN Respond(p, "create_checkout", "forbidden", 0)
       ELSE /\ pc' = [pc EXCEPT ![p] = "cc_existing"]
            /\ local' = [local EXCEPT ![p] =
                    [NoLoanLocal EXCEPT !.op = "create_checkout",
                                        !.member = target, !.book = b, !.copies = books[b]]]
            /\ last' = NoResult
    /\ UNCHANGED <<books, checkouts, deploy, clock, sessions>>

\* create_loan, lines 227-231: _require_admin, then _get_member and _get_book
CreateLoanGet(p, actor, target, b) ==
    /\ pc[p] = "idle"
    /\ Len(checkouts) + Cardinality({q \in Procs : InCreateCheckout(q)}) < deploy.capacity
    /\ IF actor \notin deploy.admins
       THEN Respond(p, "create_loan", "forbidden", 0)
       ELSE /\ pc' = [pc EXCEPT ![p] = "cl_existing"]
            /\ local' = [local EXCEPT ![p] =
                    [NoLoanLocal EXCEPT !.op = "create_loan",
                                        !.member = target, !.book = b, !.copies = books[b]]]
            /\ last' = NoResult
    /\ UNCHANGED <<books, checkouts, deploy, clock, sessions>>

\* the existing-checkout query, then _ensure_book_available on the book that was read
CreateExisting(p, here, next) ==
    /\ pc[p] = here
    /\ IF ExistingActive(local[p].member, local[p].book) # {}
       THEN Respond(p, local[p].op, "conflict", 0)
       ELSE IF local[p].copies <= 0
       THEN Respond(p, local[p].op, "no_copies", 0)
       ELSE /\ pc' = [pc EXCEPT ![p] = next]
            /\ last' = NoResult
            /\ UNCHANGED local
    /\ UNCHANGED <<books, checkouts, deploy, clock, sessions>>

\* _adjust_book_copies(book, -1), db.add(checkout), db.commit(): the UPDATE of the book
\* writes the value computed from the copy that was read, the INSERT adds the row
CreateCommit(p, here) ==
    /\ pc[p] = here
    /\ books' = [books EXCEPT ![local[p].book] = local[p].copies - 1]
    /\ checkouts' = Append(checkouts,
            [book_id |-> local[p].book, member_id |-> local[p].member,
             status |-> "checked_out"])
    /\ Respond(p, local[p].op, "ok", Len(checkouts) + 1)
    /\ UNCHANGED <<deploy, clock, sessions>>

CreateCheckoutExisting(p) == CreateExisting(p, "cc_existing", "cc_commit")

CreateCheckoutCommit(p) == CreateCommit(p, "cc_commit")

CreateLoanExisting(p) == CreateExisting(p, "cl_existing", "cl_commit")

CreateLoanCommit(p) == CreateCommit(p, "cl_commit")

\* the checks of update_checkout, lines 284-360, on the checkout that was read
UpdateVerdict(row, action, admin, datesAllow) ==
    CASE action = "return" ->
            IF row.status \notin ACTIVE_STATUSES THEN "not_active" ELSE "ok"
      [] action = "extend" ->
            IF row.status \notin ACTIVE_STATUSES THEN "not_active"
            ELSE IF row.status = "overdue" THEN "overdue"
            ELSE IF ~datesAllow THEN "extension_refused"
            ELSE "ok"
      [] action = "cancel" ->
            IF row.status # "checked_out" THEN "not_cancellable" ELSE "ok"
      [] action = "mark_lost" ->
            IF ~admin THEN "forbidden"
            ELSE IF row.status \notin ACTIVE_STATUSES THEN "not_active"
            ELSE "ok"

\* the status update_checkout assigned, written to the stored row; an extension
\* assigns due_at only
UpdatedCheckout(stored, action) ==
    CASE action = "return" -> [stored EXCEPT !.status = "returned"]
      [] action = "extend" -> stored
      [] action = "cancel" -> [stored EXCEPT !.status = "cancelled"]
      [] action = "mark_lost" -> [stored EXCEPT !.status = "lost"]

\* update_checkout, lines 270-360: _get_checkout with its book joined,
\* _ensure_can_access, then the action's checks and assignments on the objects read;
\* datesAllow: due_at, now and the payload pass the checks of lines 296-330
UpdateCheckoutGet(p, actor, cid, action, datesAllow) ==
    /\ pc[p] = "idle"
    /\ action # "extend" => datesAllow
    /\ IF ~CheckoutExists(cid)
       THEN Respond(p, "update_checkout", "not_found", cid)
       ELSE IF actor \notin deploy.admins /\ checkouts[cid].member_id # actor
       THEN Respond(p, "update_checkout", "forbidden", cid)
       ELSE IF UpdateVerdict(checkouts[cid], action, actor \in deploy.admins, datesAllow) # "ok"
       THEN Respond(p, "update_checkout",
                    UpdateVerdict(checkouts[cid], action, actor \in deploy.admins, datesAllow),
                    cid)
       ELSE /\ pc' = [pc EXCEPT ![p] = "uc_commit"]
            /\ local' = [local EXCEPT ![p] =
                    [NoLoanLocal EXCEPT !.op = "update_checkout", !.cid = cid,
                                        !.action = action,
                                        !.row = checkouts[cid],
                                        !.member = checkouts[cid].member_id,
                                        !.book = checkouts[cid].book_id,
                                        !.copies = books[checkouts[cid].book_id]]]
            /\ last' = NoResult
    /\ UNCHANGED <<books, checkouts, deploy, clock, sessions>>

\* update_checkout, lines 365-367: db.commit() writes the changed attributes of the
\* checkout and of its book; the UPDATE of a row that is gone raises StaleDataError
UpdateCheckoutCommit(p) ==
    /\ pc[p] = "uc_commit"
    /\ LET l == local[p]
       IN  IF ~CheckoutExists(l.cid)
           THEN /\ Respond(p, "update_checkout", "server_error", l.cid)
                /\ UNCHANGED <<books, checkouts>>
           ELSE /\ checkouts' = [checkouts EXCEPT ![l.cid] =
                                    UpdatedCheckout(checkouts[l.cid], l.action)]
                /\ books' = IF l.action \in {"return", "cancel"}
                            THEN [books EXCEPT ![l.book] = l.copies + 1]
                            ELSE books
                /\ Respond(p, "update_checkout", "ok", l.cid)
    /\ UNCHANGED <<deploy, clock, sessions>>

\* delete_checkout, lines 370-372: _require_admin, _get_checkout, _get_book
DeleteCheckoutGet(p, actor, cid) ==
    /\ pc[p] = "idle"
    /\ IF actor \notin deploy.admins
       THEN Respond(p, "delete_checkout", "forbidden", cid)
       ELSE IF ~CheckoutExists(cid)
       THEN Respond(p, "delete_checkout", "not_found", cid)
       ELSE /\ pc' = [pc EXCEPT ![p] = "dc_commit"]
            /\ local' = [local EXCEPT ![p] =
                    [NoLoanLocal EXCEPT !.op = "delete_checkout", !.cid = cid,
                                        !.row = checkouts[cid],
                                        !.member = checkouts[cid].member_id,
                                        !.book = checkouts[cid].book_id,
                                        !.copies = books[checkouts[cid].book_id]]]
            /\ last' = NoResult
    /\ UNCHANGED <<books, checkouts, deploy, clock, sessions>>

\* delete_checkout, lines 374-378: the copy comes back if the checkout was active,
\* db.delete(checkout), db.commit()
DeleteCheckoutCommit(p) ==
    /\ pc[p] = "dc_commit"
    /\ books' = IF local[p].row.status \in ACTIVE_STATUSES
                THEN [books EXCEPT ![local[p].book] = local[p].copies + 1]
                ELSE books
    /\ checkouts' = [checkouts EXCEPT ![local[p].cid] = NoCheckout]
    /\ Respond(p, "delete_checkout", "ok", local[p].cid)
    /\ UNCHANGED <<deploy, clock, sessions>>

\* get_checkout, lines 190-192, and _apply_overdue_status up to its commit;
\* pastDue: due_at < now
GetCheckoutRead(p, actor, cid, pastDue) ==
    /\ pc[p] = "idle"
    /\ IF ~CheckoutExists(cid)
       THEN Respond(p, "get_checkout", "not_found", cid)
       ELSE IF actor \notin deploy.admins /\ checkouts[cid].member_id # actor
       THEN Respond(p, "get_checkout", "forbidden", cid)
       ELSE IF checkouts[cid].status = "checked_out" /\ pastDue
       THEN /\ pc' = [pc EXCEPT ![p] = "gc_commit"]
            /\ local' = [local EXCEPT ![p] =
                    [NoLoanLocal EXCEPT !.op = "get_checkout", !.cid = cid,
                                        !.member = checkouts[cid].member_id,
                                        !.book = checkouts[cid].book_id]]
            /\ last' = NoResult
       ELSE Respond(p, "get_checkout", "ok", cid)
    /\ UNCHANGED <<books, checkouts, deploy, clock, sessions>>

\* _apply_overdue_status, lines 119-122: status = OVERDUE, db.commit()
GetCheckoutCommit(p) ==
    /\ pc[p] = "gc_commit"
    /\ IF ~CheckoutExists(local[p].cid)
       THEN /\ Respond(p, "get_checkout", "server_error", local[p].cid)
            /\ UNCHANGED checkouts
       ELSE /\ checkouts' = [checkouts EXCEPT ![local[p].cid].status = "overdue"]
            /\ Respond(p, "get_checkout", "ok", local[p].cid)
    /\ UNCHANGED <<books, deploy, clock, sessions>>

\* members and the administrator creating checkouts at the same time
NextLoans ==
    \/ \E p \in deploy.workers, actor \in deploy.members, target \in deploy.members,
          b \in Books : CreateCheckoutGet(p, actor, target, b)
    \/ \E p \in deploy.workers : CreateCheckoutExisting(p)
    \/ \E p \in deploy.workers : CreateCheckoutCommit(p)
    \/ \E p \in deploy.workers, actor \in deploy.members, target \in deploy.members,
          b \in Books : CreateLoanGet(p, actor, target, b)
    \/ \E p \in deploy.workers : CreateLoanExisting(p)
    \/ \E p \in deploy.workers : CreateLoanCommit(p)

SpecLoans == InitLibrary /\ [][NextLoans]_vars

\* the checkout endpoints of the members and the administrator
NextLibrary ==
    \/ \E p \in deploy.workers, actor \in deploy.members, target \in deploy.members,
          b \in Books : CreateCheckoutGet(p, actor, target, b)
    \/ \E p \in deploy.workers : CreateCheckoutExisting(p)
    \/ \E p \in deploy.workers : CreateCheckoutCommit(p)
    \/ \E p \in deploy.workers, actor \in deploy.members, cid \in 1..deploy.capacity,
          action \in UpdateActions, datesAllow \in BOOLEAN :
            UpdateCheckoutGet(p, actor, cid, action, datesAllow)
    \/ \E p \in deploy.workers : UpdateCheckoutCommit(p)
    \/ \E p \in deploy.workers, actor \in deploy.members, cid \in 1..deploy.capacity :
            DeleteCheckoutGet(p, actor, cid)
    \/ \E p \in deploy.workers : DeleteCheckoutCommit(p)
    \/ \E p \in deploy.workers, actor \in deploy.members, cid \in 1..deploy.capacity,
          pastDue \in BOOLEAN : GetCheckoutRead(p, actor, cid, pastDue)
    \/ \E p \in deploy.workers : GetCheckoutCommit(p)

SpecLibrary == InitLibrary /\ [][NextLibrary]_vars

\* the store may refuse the guard's revoking write
NextFault ==
    \/ Next
    \/ \E p \in deploy.workers : RequireSessionExpireFails(p)

SpecFault == Init /\ [][NextFault]_vars

TypeOK ==
    /\ clock \in Times
    /\ Len(sessions) <= deploy.capacity
    /\ \A i \in DOMAIN sessions : Cardinality(sessions[i].revoked_at) <= 1

(***************************************************************************)
(* Claims                                                                  *)
(***************************************************************************)

\* the step in which worker p's guard validation surfaces its outcome
GuardCompletes(p) ==
    /\ pc[p] \in {"rs_absolute", "rs_idle", "rs_slide"}
    /\ pc'[p] = "idle"

AllIdle == \A p \in Procs : pc[p] = "idle"

RowsOf(m) == {i \in DOMAIN sessions : sessions[i].member_id = m}

\* C1: in every committed state of the store each member_id has at most one
\* session row with revoked = false.
C1_AtMostOneActivePerMember ==
    \A m \in deploy.members : Cardinality(ActiveIds(sessions, m)) <= 1

\* C2: when only create_session calls run, concurrently, and all of them have
\* completed, a member that has session rows has exactly one with revoked = false.
C2_ExactlyOneActiveAfterCreates ==
    AllIdle =>
        \A m \in deploy.members :
            RowsOf(m) # {} => Cardinality(ActiveIds(sessions, m)) = 1

\* C3: when create_session's transaction commits, so that the call returns its
\* session, the new row has revoked = false and every other row of that member
\* has revoked = true.
C3_NewSessionIsOnlyActive ==
    [][\A p \in Procs :
        (pc[p] = "cs_flush" /\ pc'[p] = "cs_refresh") =>
            /\ ~sessions'[local'[p].sid].revoked
            /\ \A i \in DOMAIN sessions' :
                    (sessions'[i].member_id = local[p].member /\ i # local'[p].sid)
                        => sessions'[i].revoked]_vars

\* C4: with calls made in sequence, of two sessions created for the same member
\* the earlier is revoked, a validation presenting the earlier id fails with
\* invalid_session, and a validation presenting the later id, while that row is
\* not revoked, succeeds and yields that member; the ids differ.
C4_SecondSignInInvalidatesFirst ==
    \A i, j \in DOMAIN sessions :
        (i < j /\ sessions[i].member_id = sessions[j].member_id) =>
            /\ sessions[i].revoked
            /\ (last.op = "require_session" /\ last.sid = i) =>
                    last.code = "invalid_session"
            /\ (last.op = "require_session" /\ last.sid = j /\ ~sessions[j].revoked) =>
                    (last.code = "ok" /\ last.member = sessions[j].member_id)

C4_Witness ==
    \E i, j \in DOMAIN sessions :
        /\ i < j
        /\ sessions[i].member_id = sessions[j].member_id
        /\ last.op = "require_session"
        /\ last.sid = j
        /\ last.code = "ok"

\* C5: no guard validation succeeds with the id of a session whose row is revoked
\* in the store at the time the validation completes.
C5_NoSuccessOnceRevoked ==
    (last.op = "require_session" /\ last.code = "ok") => ~sessions[last.sid].revoked

\* C6: a validation that found a session with now - created_at > absolute_timeout
\* and now - last_active_at > idle_timeout fails with absolute_expired.
C6_AbsolutePrecedence ==
    [][\A p \in Procs :
        (/\ GuardCompletes(p)
         /\ local[p].now - local[p].obj.created_at > AbsoluteTimeoutTicks
         /\ local[p].now - local[p].obj.last_active_at > IdleTimeoutTicks) =>
            (last'.op = "require_session" /\ last'.sid = local[p].sid
                /\ last'.code = "absolute_expired")]_vars

C6_Witness ==
    /\ last.op = "require_session"
    /\ last.code = "absolute_expired"
    /\ sessions[last.sid].last_active_at + IdleTimeoutTicks
            <= sessions[last.sid].created_at + AbsoluteTimeoutTicks

C8_IdleExpiryRevokes ==
    [][\A p \in Procs :
        (/\ GuardCompletes(p)
         /\ ~(local[p].now - local[p].obj.created_at > AbsoluteTimeoutTicks)
         /\ local[p].now - local[p].obj.last_active_at > IdleTimeoutTicks) =>
            /\ last'.op = "require_session"
            /\ last'.code = "idle_expired"
            /\ sessions'[local[p].sid].revoked
            /\ sessions'[local[p].sid].last_active_at
                    = sessions[local[p].sid].last_active_at]_vars

C8_Witness ==
    /\ last.op = "require_session"
    /\ last.code = "idle_expired"
    /\ sessions[last.sid].revoked
    /\ sessions[last.sid].revoked_at # NULL

\* C9: a validation with no session id presented fails with not_authenticated
\* and leaves every session row unchanged.
C9_NoCookieNotAuthenticated ==
    [][(last'.op = "require_session" /\ last'.sid = 0) =>
            (last'.code = "not_authenticated" /\ sessions' = sessions)]_vars

C9_Witness ==
    /\ last.op = "require_session"
    /\ last.code = "not_authenticated"
    /\ sessions # <<>>

\* C10: a validation presenting an id that matches no row, or the id of a revoked
\* row, fails with invalid_session at once and changes no session row.
C10_MissingOrRevokedInvalid ==
    [][\A p \in Procs : \A sid \in 1..deploy.capacity :
        (/\ RequireSessionGet(p, sid)
         /\ (sid \notin DOMAIN sessions \/ sessions[sid].revoked)) =>
            /\ last' = Outcome("require_session", "invalid_session", sid, 0)
            /\ sessions' = sessions
            /\ pc' = pc]_vars

C10_Witness ==
    /\ last.op = "require_session"
    /\ last.code = "invalid_session"
    /\ last.sid \in DOMAIN sessions
    /\ sessions[last.sid].revoked
    /\ Len(sessions) < deploy.capacity

\* C11: a validation of a session that is not revoked, made before either timeout
\* has elapsed on the row it fetched, succeeds, yields the member the session was
\* created for and leaves last_active_at equal to the validation's now.
C11_CreateThenValidate ==
    [][\A p \in Procs :
        (/\ GuardCompletes(p)
         /\ ~sessions[local[p].sid].revoked
         /\ local[p].now - local[p].obj.created_at <= AbsoluteTimeoutTicks
         /\ local[p].now - local[p].obj.last_active_at <= IdleTimeoutTicks) =>
            /\ last'.op = "require_session"
            /\ last'.code = "ok"
            /\ last'.sid = local[p].sid
            /\ last'.member = sessions[local[p].sid].member_id
            /\ sessions'[local[p].sid].last_active_at = local[p].now
            /\ ~sessions'[local[p].sid].revoked]_vars

C11_Witness ==
    /\ last.op = "require_session"
    /\ last.code = "ok"
    /\ last.member = sessions[last.sid].member_id
    /\ ~sessions[last.sid].revoked
    /\ sessions[last.sid].last_active_at = clock
    /\ sessions[last.sid].last_active_at > sessions[last.sid].created_at

\* C12: create_session makes at most 2 attempts: each UPDATE starts one attempt,
\* a constraint violation on the first attempt leads back to the UPDATE once, and
\* a constraint violation on the second attempt ends the call with the error.
C12_AtMostTwoAttempts ==
    [][\A p \in Procs :
        /\ local'[p].attempts <= 2
        /\ (pc[p] = "cs_update" /\ pc'[p] = "cs_flush") =>
                local'[p].attempts = local[p].attempts + 1
        /\ (/\ pc[p] = "cs_flush"
            /\ pc'[p] # "cs_flush"
            /\ InsertViolates(sessions, local[p].member, local[p].upd)) =>
                IF local[p].attempts = 1
                THEN /\ pc'[p] = "cs_update"
                     /\ local'[p].attempts = 1
                     /\ last' = NoResult
                ELSE /\ pc'[p] = "idle"
                     /\ last' = Outcome("create_session", "integrity_error", 0,
                                        local[p].member)]_vars

C12_Witness ==
    /\ last.op = "create_session"
    /\ last.code = "integrity_error"

\* C13: an attempt of create_session that ends in a constraint violation leaves
\* every committed row as it was: no row is added or changed by the failing step,
\* and no row the attempt's UPDATE selected is revoked, also when the call then
\* raises.
C13_FailedAttemptChangesNothing ==
    [][\A p \in Procs :
        (/\ pc[p] = "cs_flush"
         /\ pc'[p] # "cs_flush"
         /\ InsertViolates(sessions, local[p].member, local[p].upd)) =>
            /\ sessions' = sessions
            /\ \A i \in local[p].upd : ~sessions'[i].revoked]_vars

C13_Witness ==
    /\ last.op = "create_session"
    /\ last.code = "integrity_error"
    /\ ActiveIds(sessions, last.member) # {}
    /\ \E i \in DOMAIN sessions : sessions[i].revoked

C15_RevokedNeverReverts ==
    [][\A i \in DOMAIN sessions : sessions[i].revoked => sessions'[i].revoked]_vars

C15_Witness ==
    /\ last.op = "require_session"
    /\ last.code = "ok"
    /\ sessions[last.sid].revoked
    /\ sessions[last.sid].last_active_at = clock

C18_LastActiveNeverDecreases ==
    [][\A i \in DOMAIN sessions :
        ~sessions'[i].revoked =>
            sessions'[i].last_active_at >= sessions[i].last_active_at]_vars

\* C19: in every reachable state every row has last_active_at >= created_at.
C19_LastActiveNotBeforeCreated ==
    \A i \in DOMAIN sessions : sessions[i].last_active_at >= sessions[i].created_at

C19_Witness ==
    /\ last.op = "require_session"
    /\ last.code = "ok"
    /\ sessions[last.sid].created_at > 0
    /\ sessions[last.sid].last_active_at > sessions[last.sid].created_at

\* C20: no validation succeeds with now - created_at > absolute_timeout, and a
\* validation past that deadline whose session was last active within the idle
\* window fails with absolute_expired.
C20_SlidingKeepsAbsoluteCeiling ==
    [][\A p \in Procs :
        GuardCompletes(p) =>
            /\ last'.code = "ok" =>
                    local[p].now - sessions[local[p].sid].created_at <= AbsoluteTimeoutTicks
            /\ (/\ local[p].now - sessions[local[p].sid].created_at > AbsoluteTimeoutTicks
                /\ local[p].now - local[p].obj.last_active_at <= IdleTimeoutTicks) =>
                    last'.code = "absolute_expired"]_vars

C20_Witness ==
    /\ last.op = "require_session"
    /\ last.code = "absolute_expired"
    /\ sessions[last.sid].last_active_at > sessions[last.sid].created_at
    /\ clock - sessions[last.sid].last_active_at <= IdleTimeoutTicks
    /\ sessions[last.sid].revoked_at = {clock}

C22_ExpiredFailsClosed ==
    [][\A p \in Procs :
        (/\ GuardCompletes(p)
         /\ \/ local[p].now - local[p].obj.created_at > AbsoluteTimeoutTicks
            \/ local[p].now - local[p].obj.last_active_at > IdleTimeoutTicks) =>
            /\ last'.op = "require_session"
            /\ last'.code \in {"absolute_expired", "idle_expired", "server_error"}
            /\ last'.member = 0
            /\ sessions'[local[p].sid].last_active_at
                    = sessions[local[p].sid].last_active_at]_vars

C22_Witness ==
    /\ last.op = "require_session"
    /\ last.code = "server_error"
    /\ ~sessions[last.sid].revoked
    /\ clock - sessions[last.sid].last_active_at > IdleTimeoutTicks

C24_RejectedSigninTouchesNothing ==
    [][\A p \in Procs :
        /\ \A email \in Emails : \A passwordMatches \in BOOLEAN :
            (/\ Signin(p, email, passwordMatches)
             /\ ~(email \in deploy.members /\ passwordMatches)) =>
                /\ last'.op = "signin"
                /\ email >= 0 => last'.code = "invalid_credentials"
                /\ last'.sid = 0
                /\ sessions' = sessions
                /\ pc' = pc
                /\ local' = local
        /\ (pc[p] = "idle" /\ pc'[p] = "cs_update") =>
                \E email \in deploy.members : Signin(p, email, TRUE)]_vars

C24_Witness ==
    /\ last.op = "signin"
    /\ last.code = "invalid_credentials"
    /\ \E i \in DOMAIN sessions : ~sessions[i].revoked
    /\ \E p \in Procs : pc[p] = "cs_flush"

\* C25: with the header enabled a successful validation carries
\* X-Session-Idle-Remaining = the whole seconds of idle_timeout minus the time
\* elapsed since the last_active_at it read, between 0 and idle_timeout; no other
\* response carries the header, and none does with the header disabled.
C25_IdleRemainingHeader ==
    [][/\ \A p \in Procs :
            (GuardCompletes(p) /\ last'.code = "ok" /\ deploy.sendHeader) =>
                LET millis == (IdleTimeoutTicks
                                - (local[p].now - local[p].obj.last_active_at))
                              * MillisPerTick
                IN  \E h \in last'.header :
                        /\ last'.header = {h}
                        /\ h * 1000 <= millis
                        /\ millis < (h + 1) * 1000
                        /\ h >= 0
                        /\ h * 1000 <= IdleTimeoutTicks * MillisPerTick
       /\ (last'.op # "require_session" \/ last'.code # "ok" \/ ~deploy.sendHeader) =>
                last'.header = NULL]_vars

C25_Witness ==
    /\ last.op = "require_session"
    /\ last.code = "ok"
    /\ last.header = {0}
    /\ sessions[last.sid].last_active_at = clock

\* C26: no operation changes member_id or created_at of an existing row or
\* removes a row; a step that changes last_active_at is a successful validation
\* of that row and changes nothing else of it, and a step that changes revoked
\* or revoked_at leaves last_active_at alone.
C26_FrameOfLifecycleWrites ==
    [][/\ Len(sessions') >= Len(sessions)
       /\ \A i \in DOMAIN sessions :
            /\ sessions'[i].member_id = sessions[i].member_id
            /\ sessions'[i].created_at = sessions[i].created_at
            /\ sessions'[i].last_active_at # sessions[i].last_active_at =>
                    /\ sessions'[i].revoked = sessions[i].revoked
                    /\ sessions'[i].revoked_at = sessions[i].revoked_at
                    /\ last'.op = "require_session"
                    /\ last'.code = "ok"
                    /\ last'.sid = i]_vars

C26_Witness ==
    /\ last.op = "revoke_session"
    /\ last.code = "true"
    /\ sessions[last.sid].revoked
    /\ sessions[last.sid].last_active_at > sessions[last.sid].created_at
    /\ \E t \in sessions[last.sid].revoked_at : t > sessions[last.sid].last_active_at
    /\ \E j \in DOMAIN sessions : j > last.sid /\ ~sessions[j].revoked

\* C27: a validation at exactly now - created_at = absolute_timeout and
\* now - last_active_at = idle_timeout succeeds and slides the session, and a
\* validation is answered absolute_expired or idle_expired only when the elapsed
\* time is strictly greater than the timeout.
C27_TimeoutComparisonsStrict ==
    [][\A p \in Procs :
        GuardCompletes(p) =>
            /\ (/\ local[p].now - local[p].obj.created_at = AbsoluteTimeoutTicks
                /\ local[p].now - local[p].obj.last_active_at = IdleTimeoutTicks) =>
                    /\ last'.code = "ok"
                    /\ sessions'[local[p].sid].last_active_at = local[p].now
            /\ last'.code = "absolute_expired" =>
                    local[p].now - local[p].obj.created_at > AbsoluteTimeoutTicks
            /\ last'.code = "idle_expired" =>
                    local[p].now - local[p].obj.last_active_at > IdleTimeoutTicks]_vars

C27_Witness ==
    /\ last.op = "require_session"
    /\ last.code = "ok"
    /\ sessions[last.sid].last_active_at = clock
    /\ clock - sessions[last.sid].created_at = AbsoluteTimeoutTicks
    /\ last.header = {0}

\* C28: when the upgrade's two cleanup UPDATEs have run, each member has at most
\* one row with revoked = false, that row is the one of its rows active before
\* that ranks first by (last_active_at, created_at, id) descending, every row
\* with revoked = true has revoked_at set, and nothing else of a row changed.
C28_MigrationCleanup ==
    [][(last'.op = "upgrade" /\ last'.code = "ok") =>
        /\ DOMAIN sessions' = DOMAIN sessions
        /\ \A m \in deploy.members :
                Cardinality({i \in DOMAIN sessions' :
                    sessions'[i].member_id = m /\ ~sessions'[i].revoked}) <= 1
        /\ \A i \in DOMAIN sessions :
            /\ ~sessions'[i].revoked <=>
                    /\ ~sessions[i].revoked
                    /\ \A j \in DOMAIN sessions \ {i} :
                        (sessions[j].member_id = sessions[i].member_id
                            /\ ~sessions[j].revoked) =>
                            \/ sessions[i].last_active_at > sessions[j].last_active_at
                            \/ /\ sessions[i].last_active_at = sessions[j].last_active_at
                               /\ sessions[i].created_at > sessions[j].created_at
                            \/ /\ sessions[i].last_active_at = sessions[j].last_active_at
                               /\ sessions[i].created_at = sessions[j].created_at
                               /\ i > j
            /\ sessions'[i].revoked => sessions'[i].revoked_at # NULL
            /\ ~sessions'[i].revoked => sessions'[i].revoked_at = NULL
            /\ sessions'[i].member_id = sessions[i].member_id
            /\ sessions'[i].created_at = sessions[i].created_at
            /\ sessions'[i].last_active_at = sessions[i].last_active_at]_vars

C28_Witness ==
    /\ last.op = "upgrade"
    /\ last.code = "ok"
    /\ Len(sessions) = MaxLegacyRows
    /\ \A i \in DOMAIN sessions : sessions[i].member_id = 1
    /\ ~sessions[1].revoked
    /\ sessions[2].revoked /\ sessions[2].revoked_at = {clock}
    /\ sessions[3].revoked /\ sessions[3].revoked_at = {clock}
    /\ sessions[1].last_active_at > sessions[3].last_active_at

\* the checkouts of a book that hold one of its copies
HoldingCopy(b) ==
    {i \in DOMAIN checkouts :
        checkouts[i].book_id = b /\ checkouts[i].status \in {"checked_out", "overdue", "lost"}}

\* C29: for every member and book at most one checkout row has status checked_out
\* or overdue, whatever the interleaving of create_checkout and create_loan calls.
C29_OneActiveCheckoutPerMemberAndBook ==
    \A m \in deploy.members, b \in Books : Cardinality(ExistingActive(m, b)) <= 1

\* C30: for every book available_copies is never negative, and available_copies
\* plus the number of its checkouts in status checked_out, overdue or lost equals
\* the number of copies the book started with.
C30_CopiesConserved ==
    \A b \in DOMAIN books :
        /\ books[b] >= 0
        /\ books[b] + Cardinality(HoldingCopy(b)) = deploy.copies[b]

====
